---- MODULE Spec2Model ----
(***************************************************************************)
(* IntelliGuard SOC dashboard (frontend/src/App.jsx): the App component's  *)
(* state, the packet handler that folds one telemetry record into it, the  *)
(* simulation timer managed by the isRunning effect, and the header and    *)
(* traffic-page buttons.                                                   *)
(*                                                                         *)
(* Numbers with one decimal (threat_score) are kept in tenths.  A toast is *)
(* a tuple: <<>> is null, <<msg>> a fixed text, <<msg, device_id>> a text  *)
(* built from a device id.  Timer handles are positive integers and 0 is   *)
(* the null handle, as in the browser.                                     *)
(***************************************************************************)
EXTENDS Integers, Sequences, FiniteSets, TLC

VARIABLES
    normalCount, attackCount, quarantineCount,   \* useState, lines 52-54
    packets, labels, packetRates, byteRates,     \* useState, lines 56-59
    protocolCounts,                              \* useState, lines 61-66
    devices, timeline,                           \* useState, lines 69-70
    toast, srvStatus,                            \* useState, lines 72-76
    intel,                                       \* useState, line 78
    intelTimers,      \* pending setTimeout callbacks of runIntel (line 571)
    reportDate, esAttempts,                      \* useState, lines 79-81
    isRunning, simulationInterval,               \* useState, lines 82-83
    riskPercent,                                 \* useMemo, lines 355-359
    effectInterval,   \* `interval` of the effect instance now mounted (line 254)
    effectPending,    \* the [isRunning] effect is committed but not yet flushed
    timers,           \* interval handles armed in the browser
    downloads,        \* files handed to the browser by a.click()
    errors,           \* uncaught errors raised by event handlers
    clock,            \* wall clock, in the resolution of toLocaleTimeString
    frontendOnly,     \* the FRONTEND_ONLY flag the bundle was built with (line 42)
    effectEs,         \* `es` of the effect instance now mounted (line 253)
    sources,          \* EventSource handles that are not closed
    connected,        \* the sources whose onopen has fired
    reconnects,       \* pending setTimeout(connect, backoff) of the onerror handlers
    malformed,        \* history: messages received that are not a record
    applied,          \* history: records applied since the last completed reset
    tableSince        \* history: records applied since packets was last emptied

aggVars == <<normalCount, attackCount, quarantineCount, packets, labels,
             packetRates, byteRates, protocolCounts, devices, timeline>>
ctlVars == <<isRunning, simulationInterval, effectInterval, effectPending, timers>>
uiVars  == <<toast, srvStatus, downloads, errors, reportDate>>
sseVars == <<frontendOnly, esAttempts, effectEs, sources, connected, reconnects>>
intelVars == <<intel, intelTimers>>
histVars == <<applied, tableSince, malformed>>
vars == <<aggVars, ctlVars, uiVars, sseVars, intelVars, histVars, riskPercent, clock>>

(***************************************************************************)
(* Program constants                                                       *)
(***************************************************************************)
FRONTEND_ONLY == TRUE
MAX_ROWS == 60
HISTORY == 30
MAX_BACKOFF == 30000
MAX_TIMELINE == 12

(***************************************************************************)
(* Bounds of the model                                                     *)
(***************************************************************************)
MaxRecords == 2       \* records generated in a run of Spec
MaxClock == 1         \* last clock value in a run of Spec
MaxDownloads == 1     \* files created in a run
MaxLong == 62         \* records generated in a run of SpecLong
FreeChoices == 2      \* leading records of SpecLong whose label is free
MaxCount == 12        \* counter values drawn in SpecRisk
MaxBurst == 14        \* records generated in a run of SpecBurst
MaxBurstClock == 6    \* last clock value in a run of SpecBurst
MaxAttempts == 11     \* consecutive stream errors in a run of SpecSSE
MaxStale == 1         \* unmounted effect instances still reconnecting
MaxIntel == 1         \* analyses pending at once in a run of SpecIntel
MaxMalformed == 1     \* messages that are not a record in a run of SpecStream

Min(a, b) == IF a < b THEN a ELSE b
Max(a, b) == IF a > b THEN a ELSE b

\* Array.prototype.slice(0, n)
SliceHead(s, n) == SubSeq(s, 1, Min(n, Len(s)))
\* Array.prototype.slice(-n)
SliceTail(s, n) == SubSeq(s, Max(1, Len(s) - n + 1), Len(s))

Reverse(s) == [i \in 1..Len(s) |-> s[Len(s) + 1 - i]]

\* String.prototype.toLowerCase on the protocol names that occur
toLowerCase(s) ==
    CASE s = "MQTT" -> "mqtt"
      [] s = "COAP" -> "coap"
      [] s = "HTTP" -> "http"
      [] s = "UDP"  -> "udp"
      [] OTHER      -> s

(***************************************************************************)
(* generateRandomPacket                                                    *)
(***************************************************************************)
\* entries of the 20-entry device catalog
DeviceCatalog == <<
    [id |-> "cam_01",    type |-> "SmartCam",         protocols |-> <<"mqtt", "udp">>],
    [id |-> "plug_02",   type |-> "SmartPlug",        protocols |-> <<"mqtt">>],
    [id |-> "thermo_01", type |-> "Thermostat",       protocols |-> <<"mqtt", "coap">>],
    [id |-> "meter_02",  type |-> "EnergyMeter",      protocols |-> <<"coap">>],
    [id |-> "ind_02",    type |-> "IndustrialSensor", protocols |-> <<"mqtt">>],
    [id |-> "lock_01",   type |-> "DoorLock",         protocols |-> <<"coap", "http">>],
    [id |-> "router_01", type |-> "Router",           protocols |-> <<"http", "udp">> ] >>

highBandwidth == {"SmartCam", "IndustrialSensor", "Router"}
lowBandwidth == {"Thermostat", "SmartPlug", "SmartLight"}

\* lowest draw of Math.floor(Math.random() * range) + base, per bandwidth tier
baseRate(type) ==
    IF type \in highBandwidth THEN 120 ELSE IF type \in lowBandwidth THEN 20 ELSE 30
baseBytes(type) ==
    IF type \in highBandwidth THEN 2000 ELSE IF type \in lowBandwidth THEN 300 ELSE 400

\* One record: device, protocol, the attack draw, the rounded threat score
\* (tenths), the quarantine draw, offsets added to the base rates and the
\* time stamp.  An attack multiplies the rates by the lowest multiplier, 2.
MakePacket(device, protocol, isAttack, threatScore, quarantined, dRate, dBytes, ts) ==
    [ timestamp    |-> ts,
      device_id    |-> device.id,
      device_type  |-> device.type,
      protocol     |-> protocol,
      packet_rate  |-> (baseRate(device.type) + dRate) * (IF isAttack THEN 2 ELSE 1),
      byte_rate    |-> (baseBytes(device.type) + dBytes) * (IF isAttack THEN 2 ELSE 1),
      label        |-> IF isAttack THEN "Attack" ELSE "Normal",
      threat_score |-> threatScore,
      quarantined  |-> quarantined ]

\* the catalog entries the generator draws from in Spec: plug_02 and meter_02
drawnDevices == {DeviceCatalog[2], DeviceCatalog[4]}

\* The records generateRandomPacket can return at time ts, over the drawn
\* catalog entries: a normal record scores in [0, 3), an attack in [6, 10]
\* and only an attack can be quarantined.
generateRandomPacket(ts) ==
    UNION { UNION { { MakePacket(device, device.protocols[p], FALSE, 15, FALSE, 0, 0, ts),
                      MakePacket(device, device.protocols[p], TRUE, 65, FALSE, 0, 0, ts),
                      MakePacket(device, device.protocols[p], TRUE, 82, TRUE, 0, 0, ts) }
                    : p \in 1..Len(device.protocols) }
            : device \in drawnDevices }

(***************************************************************************)
(* handlePacket: the state updaters                                        *)
(***************************************************************************)
\* mutant: the record is pushed at the tail
packetsUpdaterAppend(prev, pkt) == SliceHead(Append(prev, pkt), MAX_ROWS)

\* mutant: the record never reaches the table
packetsUpdaterDrop(prev, pkt) == prev

packetsUpdater(prev, pkt) == SliceHead(<<pkt>> \o prev, MAX_ROWS)

labelsUpdater(prev, pkt) == SliceTail(Append(prev, pkt.timestamp), HISTORY)
\* mutant: slice(-HISTORY + 1)
packetRatesUpdaterShort(prev, pkt) ==
    SliceTail(Append(prev, pkt.packet_rate), HISTORY - 1)

packetRatesUpdater(prev, pkt) == SliceTail(Append(prev, pkt.packet_rate), HISTORY)
byteRatesUpdater(prev, pkt) == SliceTail(Append(prev, pkt.byte_rate), HISTORY)

\* mutant: the key keeps the case of the record
protocolKeyRaw(pkt) == IF pkt.protocol = "" THEN "unknown" ELSE pkt.protocol

\* String(pkt.protocol || "unknown").toLowerCase(); "" stands for a missing protocol
protocolKey(pkt) == toLowerCase(IF pkt.protocol = "" THEN "unknown" ELSE pkt.protocol)

protocolCountsUpdater(prev, pkt) ==
    LET key == protocolKey(pkt)
        old == IF key \in DOMAIN prev THEN prev[key] ELSE 0
    IN  [k \in DOMAIN prev \cup {key} |-> IF k = key THEN old + 1 ELSE prev[k]]

isAttackLabel(pkt) == pkt.label = "Attack"

\* mutant: the else is lost and every record counts as normal
normalCountUpdaterAlways(c, pkt) == c + 1

normalCountUpdater(c, pkt) == IF isAttackLabel(pkt) THEN c ELSE c + 1
attackCountUpdater(c, pkt) == IF isAttackLabel(pkt) THEN c + 1 ELSE c
quarantineCountUpdater(c, pkt) == IF pkt.quarantined THEN c + 1 ELSE c

\* { id: `${pkt.timestamp}-${pkt.device_id}-${prev.length}`, ...pkt }
timelineEntry(prev, pkt) ==
    pkt @@ [id |-> <<pkt.timestamp, pkt.device_id, Len(prev)>>]

\* mutant: the label test is lost
timelineUpdaterAll(prev, pkt) ==
    SliceHead(<<timelineEntry(prev, pkt)>> \o prev, MAX_TIMELINE)

timelineUpdater(prev, pkt) ==
    IF isAttackLabel(pkt)
    THEN SliceHead(<<timelineEntry(prev, pkt)>> \o prev, MAX_TIMELINE)
    ELSE prev

\* mutant: totalPackets counts only the records that are not attacks
devicesUpdaterElse(prev, pkt) ==
    LET id == IF pkt.device_id = "" THEN "unknown" ELSE pkt.device_id
        existing == IF id \in DOMAIN prev THEN prev[id]
                    ELSE [ id |-> id, type |-> pkt.device_type,
                           protocol |-> pkt.protocol, totalPackets |-> 0,
                           attackCount |-> 0, lastStatus |-> "Normal",
                           quarantined |-> FALSE, threat_score |-> 0,
                           lastSeen |-> pkt.timestamp ]
        updated == [ existing EXCEPT
                       !.totalPackets = IF isAttackLabel(pkt) THEN @ ELSE @ + 1,
                       !.attackCount = IF isAttackLabel(pkt) THEN @ + 1 ELSE @,
                       !.lastStatus = pkt.label,
                       !.quarantined = pkt.quarantined,
                       !.threat_score = pkt.threat_score,
                       !.protocol = pkt.protocol,
                       !.type = pkt.device_type,
                       !.lastSeen = pkt.timestamp ]
    IN  [k \in DOMAIN prev \cup {id} |-> IF k = id THEN updated ELSE prev[k]]

\* mutant: the updater runs twice on the aggregate it changes in place
devicesUpdaterTwice(prev, pkt) ==
    LET id == IF pkt.device_id = "" THEN "unknown" ELSE pkt.device_id
        known == id \in DOMAIN prev
        existing == IF known THEN prev[id]
                    ELSE [ id |-> id, type |-> pkt.device_type,
                           protocol |-> pkt.protocol, totalPackets |-> 0,
                           attackCount |-> 0, lastStatus |-> "Normal",
                           quarantined |-> FALSE, threat_score |-> 0,
                           lastSeen |-> pkt.timestamp ]
        times == IF known THEN 2 ELSE 1
        updated == [ existing EXCEPT
                       !.totalPackets = @ + times,
                       !.attackCount = IF isAttackLabel(pkt) THEN @ + times ELSE @,
                       !.lastStatus = pkt.label,
                       !.quarantined = pkt.quarantined,
                       !.threat_score = pkt.threat_score,
                       !.protocol = pkt.protocol,
                       !.type = pkt.device_type,
                       !.lastSeen = pkt.timestamp ]
    IN  [k \in DOMAIN prev \cup {id} |-> IF k = id THEN updated ELSE prev[k]]

\* mutant: a device once quarantined stays quarantined
devicesUpdaterSticky(prev, pkt) ==
    LET id == IF pkt.device_id = "" THEN "unknown" ELSE pkt.device_id
        existing == IF id \in DOMAIN prev THEN prev[id]
                    ELSE [ id |-> id, type |-> pkt.device_type,
                           protocol |-> pkt.protocol, totalPackets |-> 0,
                           attackCount |-> 0, lastStatus |-> "Normal",
                           quarantined |-> FALSE, threat_score |-> 0,
                           lastSeen |-> pkt.timestamp ]
        updated == [ existing EXCEPT
                       !.totalPackets = @ + 1,
                       !.attackCount = IF isAttackLabel(pkt) THEN @ + 1 ELSE @,
                       !.lastStatus = pkt.label,
                       !.quarantined = @ \/ pkt.quarantined,
                       !.threat_score = pkt.threat_score,
                       !.protocol = pkt.protocol,
                       !.type = pkt.device_type,
                       !.lastSeen = pkt.timestamp ]
    IN  [k \in DOMAIN prev \cup {id} |-> IF k = id THEN updated ELSE prev[k]]

devicesUpdater(prev, pkt) ==
    LET id == IF pkt.device_id = "" THEN "unknown" ELSE pkt.device_id
        existing == IF id \in DOMAIN prev THEN prev[id]
                    ELSE [ id |-> id, type |-> pkt.device_type,
                           protocol |-> pkt.protocol, totalPackets |-> 0,
                           attackCount |-> 0, lastStatus |-> "Normal",
                           quarantined |-> FALSE, threat_score |-> 0,
                           lastSeen |-> pkt.timestamp ]
        updated == [ existing EXCEPT
                       !.totalPackets = @ + 1,
                       !.attackCount = IF isAttackLabel(pkt) THEN @ + 1 ELSE @,
                       !.lastStatus = pkt.label,
                       !.quarantined = pkt.quarantined,
                       !.threat_score = pkt.threat_score,
                       !.protocol = pkt.protocol,
                       !.type = pkt.device_type,
                       !.lastSeen = pkt.timestamp ]
    IN  [k \in DOMAIN prev \cup {id} |-> IF k = id THEN updated ELSE prev[k]]

\* the toasts handlePacket raises, in order
packetToasts(pkt) ==
    (IF isAttackLabel(pkt) THEN << <<"Attack on", pkt.device_id>> >> ELSE <<>>)
    \o (IF pkt.quarantined THEN << <<"quarantined", pkt.device_id>> >> ELSE <<>>)

\* showToast called once per element of msgs: the last one is shown.  Each call
\* also leaves a timeout that sets the toast to null (ToastExpire).
showToasts(msgs) ==
    toast' = IF msgs = <<>> THEN toast ELSE msgs[Len(msgs)]

handlePacket(pkt) ==
    /\ packets' = packetsUpdater(packets, pkt)
    /\ labels' = labelsUpdater(labels, pkt)
    /\ packetRates' = packetRatesUpdater(packetRates, pkt)
    /\ byteRates' = byteRatesUpdater(byteRates, pkt)
    /\ protocolCounts' = protocolCountsUpdater(protocolCounts, pkt)
    /\ normalCount' = normalCountUpdater(normalCount, pkt)
    /\ attackCount' = attackCountUpdater(attackCount, pkt)
    /\ timeline' = timelineUpdater(timeline, pkt)
    /\ quarantineCount' = quarantineCountUpdater(quarantineCount, pkt)
    /\ devices' = devicesUpdater(devices, pkt)
    /\ showToasts(packetToasts(pkt))
    /\ applied' = Append(applied, pkt)
    /\ tableSince' = tableSince + 1

\* the records of the long run: record n has time stamp n, walks the catalog,
\* and is an attack when n is a multiple of 3 (either label for the first
\* FreeChoices records); every second attack is quarantined.  A normal record
\* scores 1.0 or 2.0 and an attack 6.0 or 7.0, so that scores tie.
longPackets(n) ==
    LET device == DeviceCatalog[((n - 1) % Len(DeviceCatalog)) + 1]
        protocol == device.protocols[(n % Len(device.protocols)) + 1]
        choices == IF n <= FreeChoices THEN BOOLEAN ELSE {n % 3 = 0}
    IN  { MakePacket(device, protocol, isAttack,
                     IF isAttack THEN 60 + 10 * ((n \div 3) % 2) ELSE 10 * (1 + (n % 2)),
                     isAttack /\ n % 2 = 0, n, n, n) : isAttack \in choices }

(***************************************************************************)
(* Derived values                                                          *)
(***************************************************************************)
\* mutant: Math.floor in place of Math.round
riskPercentMemoFloor(normal, attack) ==
    LET total == normal + attack
    IN  IF total = 0 THEN 0 ELSE (100 * attack) \div total

\* Math.round((attackCount / total) * 100): Math.round takes a half upwards
riskPercentMemo(normal, attack) ==
    LET total == normal + attack
    IN  IF total = 0 THEN 0 ELSE (200 * attack + total) \div (2 * total)

\* Object.values(devices): the aggregates in the order their keys were
\* inserted, which is the order of the first record of each device
RECURSIVE ObjectValues(_, _)
ObjectValues(devs, history) ==
    IF history = <<>> THEN <<>>
    ELSE LET before == ObjectValues(devs, SubSeq(history, 1, Len(history) - 1))
             id == IF history[Len(history)].device_id = "" THEN "unknown"
                   ELSE history[Len(history)].device_id
         IN  IF \E i \in 1..Len(before) : before[i].id = id
             THEN before
             ELSE Append(before, devs[id])

\* the comparator: (b.threat_score || 0) - (a.threat_score || 0)
\*                 || b.attackCount - a.attackCount
compareDevices(a, b) ==
    IF b.threat_score - a.threat_score # 0
    THEN b.threat_score - a.threat_score
    ELSE b.attackCount - a.attackCount

\* Array.prototype.sort with that comparator: the sort is stable
RECURSIVE sortDevices(_)
sortDevices(arr) ==
    IF arr = <<>> THEN <<>>
    ELSE LET sorted == sortDevices(SubSeq(arr, 1, Len(arr) - 1))
             d == arr[Len(arr)]
             k == Cardinality({i \in 1..Len(sorted) : compareDevices(sorted[i], d) <= 0})
         IN  SubSeq(sorted, 1, k) \o <<d>> \o SubSeq(sorted, k + 1, Len(sorted))

\* mutant: the sort is lost
deviceListUnsorted(devs, history) == SliceHead(ObjectValues(devs, history), 6)

deviceList(devs, history) == SliceHead(sortDevices(ObjectValues(devs, history)), 6)

\* threat_score >= 7 (70 tenths) or attackCount >= 3, over the list
highRiskDevices(list) ==
    Len(SelectSeq(list, LAMBDA d : d.threat_score >= 70 \/ d.attackCount >= 3))

(***************************************************************************)
(* Browser timers                                                          *)
(***************************************************************************)
\* mutant: the handle passed is the null one
clearIntervalNull(armed, id) == armed \ {0}

\* mutant: the handle is never cleared
clearIntervalNoop(armed, id) == armed

\* clearInterval(id); the null handle clears nothing
clearInterval(armed, id) == armed \ {id}

\* the handle setInterval returns: one that is neither armed nor still held
setInterval(held) ==
    CHOOSE id \in 1..(Cardinality(held) + 1) : id \notin held

(***************************************************************************)
(* Initial state: App is mounted and its first effect is yet to run        *)
(***************************************************************************)
InitOther ==
    /\ quarantineCount = 0
    /\ packets = <<>>
    /\ labels = <<>>
    /\ packetRates = <<>>
    /\ byteRates = <<>>
    /\ protocolCounts = [k \in {"mqtt", "coap", "http", "udp"} |-> 0]
    /\ devices = <<>>
    /\ timeline = <<>>
    /\ toast = <<>>
    /\ srvStatus = "Connecting"
    /\ isRunning = TRUE
    /\ simulationInterval = 0
    /\ effectInterval = 0
    /\ effectPending = TRUE
    /\ timers = {}
    /\ downloads = 0
    /\ errors = {}
    /\ clock = 0
    /\ applied = <<>>
    /\ tableSince = 0
    /\ reportDate = "-"
    /\ esAttempts = 0
    /\ effectEs = 0
    /\ sources = {}
    /\ connected = {}
    /\ reconnects = {}
    /\ malformed = 0
    /\ intel = <<>>
    /\ intelTimers = {}

Init ==
    /\ frontendOnly = FRONTEND_ONLY
    /\ normalCount = 0
    /\ attackCount = 0
    /\ riskPercent = riskPercentMemo(normalCount, attackCount)
    /\ InitOther

\* a render has thrown a TypeError out of a state updater: with no error
\* boundary React has unmounted App, and none of its handlers runs again
crashed == "TypeError" \in errors

(***************************************************************************)
(* The interval callback: generate one record and handle it                *)
(***************************************************************************)
Tick(pkt) ==
    /\ timers # {}
    /\ handlePacket(pkt)
    /\ riskPercent' = riskPercentMemo(normalCount', attackCount')
    /\ clock' = pkt.timestamp
    /\ UNCHANGED <<ctlVars, sseVars, intelVars, srvStatus, downloads, errors,
                   reportDate, malformed>>

TickRandom ==
    /\ normalCount + attackCount < MaxRecords
    /\ \E ts \in {clock, clock + 1} :
          /\ ts <= MaxClock
          /\ \E pkt \in generateRandomPacket(ts) : Tick(pkt)

TickLong ==
    /\ normalCount + attackCount < MaxLong
    /\ \E pkt \in longPackets(normalCount + attackCount + 1) : Tick(pkt)

\* the draws of an attack burst: the generator returns an attack on plug_02
\* that is not quarantined, every time
burstPackets(ts) ==
    { pkt \in generateRandomPacket(ts) :
          /\ pkt.device_id = DeviceCatalog[2].id
          /\ isAttackLabel(pkt)
          /\ ~pkt.quarantined }

\* the last two records applied carry the time stamp ts
twiceInSecond(ts) ==
    /\ Len(labels) >= 2
    /\ labels[Len(labels)] = ts
    /\ labels[Len(labels) - 1] = ts

\* The interval is 0.8 to 2.3 s and the time stamp has the resolution of a
\* second: two records in a row can carry one time stamp, three cannot.
TickBurst ==
    /\ normalCount + attackCount < MaxBurst
    /\ \E ts \in {clock, clock + 1} :
          /\ ts <= MaxBurstClock
          /\ ~twiceInSecond(ts)
          /\ \E pkt \in burstPackets(ts) : Tick(pkt)

(***************************************************************************)
(* Connection management: the effect on [isRunning]                        *)
(***************************************************************************)
\* es.close(); closing the undefined or an already closed source does nothing
esClose(open, es) == open \ {es}

\* the handle of new EventSource(...): one that no closure still holds
newEventSource(held) ==
    CHOOSE es \in 1..(Cardinality(held) + 1) : es \notin held

\* the EventSource handles held by the live closures, bar those of `except`
heldSources(except) ==
    sources \cup ({effectEs} \ {0}) \cup {t.es : t \in reconnects \ except}

\* The cleanup of the effect instance that was mounted runs first, then the
\* new instance: connect() when running, the stop branch otherwise.  The new
\* instance starts with `es` and `interval` undefined.
RunEffect ==
    /\ ~crashed
    /\ effectPending
    /\ effectPending' = FALSE
    /\ LET cleaned == clearInterval(timers, effectInterval)
           closed == esClose(sources, effectEs)
       IN  /\ connected' = connected \ {effectEs}
           /\ IF isRunning
              THEN IF frontendOnly
                   THEN LET interval == setInterval(cleaned \cup ({simulationInterval} \ {0}))
                        IN  /\ srvStatus' = "Connected"
                            /\ showToasts(<< <<"Demo mode active">> >>)
                            /\ timers' = cleaned \cup {interval}
                            /\ effectInterval' = interval
                            /\ simulationInterval' = interval
                            /\ sources' = closed
                            /\ effectEs' = 0
                   ELSE LET es == newEventSource(closed \cup {t.es : t \in reconnects})
                        IN  /\ sources' = closed \cup {es}
                            /\ effectEs' = es
                            /\ timers' = cleaned
                            /\ effectInterval' = 0
                            /\ UNCHANGED <<simulationInterval, srvStatus, toast>>
              ELSE IF frontendOnly
                   THEN /\ timers' = IF simulationInterval # 0
                                     THEN clearInterval(cleaned, simulationInterval)
                                     ELSE cleaned
                        /\ simulationInterval' = 0
                        /\ srvStatus' = "Stopped"
                        /\ effectInterval' = 0
                        /\ sources' = closed
                        /\ effectEs' = 0
                        /\ UNCHANGED toast
                   ELSE /\ sources' = closed
                        /\ effectEs' = 0
                        /\ srvStatus' = "Stopped"
                        /\ timers' = cleaned
                        /\ effectInterval' = 0
                        /\ UNCHANGED <<simulationInterval, toast>>
    /\ UNCHANGED <<aggVars, histVars, isRunning, riskPercent, downloads, errors,
                   reportDate, frontendOnly, esAttempts, reconnects, clock, intelVars>>

\* mutant: the button always starts
newStateTrue(prev) == TRUE

\* mutant: the state is set, not toggled
newStateSame(prev) == prev

newState(prev) == ~prev

\* The header's Start/Stop button.  React flushes a pending effect before it
\* processes the next update, so a toggle finds the previous one settled.
toggleStream ==
    /\ ~crashed
    /\ ~effectPending
    /\ isRunning' = newState(isRunning)
    /\ showToasts(<< <<IF newState(isRunning) THEN "Simulation started"
                                               ELSE "Simulation stopped">> >>)
    /\ effectPending' = TRUE
    /\ UNCHANGED <<aggVars, histVars, sseVars, simulationInterval, effectInterval,
                   timers, srvStatus, riskPercent, downloads, errors, reportDate,
                   clock, intelVars>>

(***************************************************************************)
(* Backend SSE mode: the handlers connect() gives an EventSource           *)
(***************************************************************************)
\* mutant: the cap is lost
backoffUncapped(attempts) == <<500 * 3^attempts, 2^attempts>>

\* Math.min(Math.pow(1.5, attempts) * 500, MAX_BACKOFF), in milliseconds as the
\* fraction <<numerator, denominator>>: 500 * 3^attempts over 2^attempts (the
\* double holds it exactly), or MAX_BACKOFF over 1
backoff(attempts) ==
    IF 500 * 3^attempts <= MAX_BACKOFF * 2^attempts
    THEN <<500 * 3^attempts, 2^attempts>>
    ELSE <<MAX_BACKOFF, 1>>

\* closures of an effect instance that is no longer mounted and that still
\* hold an open source or a pending reconnect
staleClosures ==
    (sources \ {effectEs}) \cup {t.es : t \in {r \in reconnects : r.es # effectEs}}

\* es.onopen
esOnOpen(es) ==
    /\ ~crashed
    /\ es \in sources \ connected
    /\ connected' = connected \cup {es}
    /\ srvStatus' = "Connected"
    /\ esAttempts' = 0
    /\ showToasts(<< <<"Realtime stream connected">> >>)
    /\ UNCHANGED <<aggVars, ctlVars, histVars, frontendOnly, effectEs, sources,
                   reconnects, downloads, errors, reportDate, riskPercent, clock, intelVars>>

\* es.onerror: the source is closed and the updater of esAttempts leaves a
\* timeout that calls this instance's connect, which closes over the
\* isRunning of the render the instance belongs to
esOnError(es) ==
    /\ ~crashed
    /\ es \in sources
    /\ esAttempts < MaxAttempts
    /\ es = effectEs => Cardinality(staleClosures) < MaxStale
    /\ srvStatus' = "Reconnecting"
    /\ sources' = esClose(sources, es)
    /\ connected' = connected \ {es}
    /\ esAttempts' = esAttempts + 1
    /\ showToasts(<< <<"Realtime stream lost">> >>)
    /\ reconnects' = reconnects \cup {[ es |-> es, isRunning |-> TRUE,
                                        backoff |-> backoff(esAttempts + 1) ]}
    /\ UNCHANGED <<aggVars, ctlVars, histVars, frontendOnly, effectEs, downloads,
                   errors, reportDate, riskPercent, clock, intelVars>>

\* the timeout fires: connect() of the instance that scheduled it
reconnectFires(t) ==
    /\ ~crashed
    /\ t \in reconnects
    /\ reconnects' = reconnects \ {t}
    /\ IF ~t.isRunning
       THEN UNCHANGED <<sources, connected, effectEs>>
       ELSE LET es == newEventSource(heldSources({t}))
            IN  /\ sources' = esClose(sources, t.es) \cup {es}
                /\ connected' = connected \ {t.es}
                /\ effectEs' = IF t.es = effectEs THEN es ELSE effectEs
    /\ UNCHANGED <<aggVars, ctlVars, histVars, frontendOnly, esAttempts, toast,
                   srvStatus, downloads, errors, reportDate, riskPercent, clock, intelVars>>

\* records of the backend's stream: the protocol in capitals, absent, and as
\* the generator writes it
streamPackets ==
    { MakePacket(DeviceCatalog[1], "MQTT", FALSE, 15, FALSE, 0, 0, 1),
      MakePacket(DeviceCatalog[1], "", TRUE, 82, TRUE, 0, 0, 1),
      MakePacket(DeviceCatalog[3], "coap", FALSE, 15, FALSE, 0, 0, 1) }

\* event.data of a message: an empty field, a text that is no JSON, the JSON
\* text of null, the JSON text of a record
eventData ==
    {[text |-> ""], [text |-> "<html>"], [text |-> "null"]}
        \cup {[text |-> "{...}", pkt |-> pkt] : pkt \in streamPackets}

\* JSON.parse: throws a SyntaxError on a text that is no JSON
JSONparse(data) ==
    IF data.text = "<html>" THEN [throws |-> TRUE]
    ELSE IF data.text = "null" THEN [throws |-> FALSE, isNull |-> TRUE]
    ELSE [throws |-> FALSE, isNull |-> FALSE, value |-> data.pkt]

\* es.onmessage.  handlePacket(null) queues its first updaters and throws at
\* pkt.label, which the catch logs; the render that follows runs the queued
\* updater of labels, which throws a TypeError at pkt.timestamp: with no
\* error boundary React unmounts App, and the effect's cleanup closes es.
esOnMessage(es, data) ==
    /\ ~crashed
    /\ es \in connected
    /\ IF data.text = ""
       THEN /\ malformed < MaxMalformed
            /\ malformed' = malformed + 1
            /\ UNCHANGED <<aggVars, applied, tableSince, toast, errors, sources,
                           connected, riskPercent>>
       ELSE LET parsed == JSONparse(data)
            IN  IF parsed.throws
                THEN /\ malformed < MaxMalformed
                     /\ malformed' = malformed + 1
                     /\ UNCHANGED <<aggVars, applied, tableSince, toast, errors,
                                    sources, connected, riskPercent>>
                ELSE IF parsed.isNull
                THEN /\ malformed < MaxMalformed
                     /\ malformed' = malformed + 1
                     /\ errors' = errors \cup {"TypeError"}
                     /\ sources' = esClose(sources, effectEs)
                     /\ connected' = connected \ {effectEs}
                     /\ UNCHANGED <<aggVars, applied, tableSince, toast, riskPercent>>
                ELSE /\ normalCount + attackCount < MaxRecords
                     /\ handlePacket(parsed.value)
                     /\ riskPercent' = riskPercentMemo(normalCount', attackCount')
                     /\ UNCHANGED <<malformed, errors, sources, connected>>
    /\ UNCHANGED <<ctlVars, frontendOnly, esAttempts, effectEs, reconnects,
                   srvStatus, downloads, reportDate, clock, intelVars>>

(***************************************************************************)
(* Header: the Refresh button                                              *)
(***************************************************************************)
\* the names bound inside Header: its props
HeaderScope == {"srvStatus", "isRunning", "toggleStream"}

\* the state setters the handler calls, in order, then showToast
RefreshCalls == <<"setPackets", "setLabels", "setPacketRates", "setByteRates",
                  "setProtocolCounts", "setDevices", "setTimeline",
                  "setNormalCount", "setAttackCount", "setQuarantineCount",
                  "setIntel", "showToast">>

\* The handler runs its calls in order; a name that is not bound where the
\* handler is written raises a ReferenceError there and ends the handler.
Refresh ==
    IF RefreshCalls[1] \in HeaderScope
    THEN /\ \A i \in 1..Len(RefreshCalls) : RefreshCalls[i] \in HeaderScope
         /\ packets' = <<>>
         /\ labels' = <<>>
         /\ packetRates' = <<>>
         /\ byteRates' = <<>>
         /\ protocolCounts' = [k \in {"mqtt", "coap", "http", "udp"} |-> 0]
         /\ devices' = <<>>
         /\ timeline' = <<>>
         /\ normalCount' = 0
         /\ attackCount' = 0
         /\ quarantineCount' = 0
         /\ riskPercent' = riskPercentMemo(0, 0)
         /\ showToasts(<< <<"Dashboard refreshed">> >>)
         /\ applied' = <<>>
         /\ tableSince' = 0
         /\ intel' = <<>>
         /\ UNCHANGED <<ctlVars, sseVars, srvStatus, downloads, errors,
                        reportDate, malformed, clock, intelTimers>>
    ELSE /\ errors' = errors \cup {"ReferenceError"}
         /\ UNCHANGED <<aggVars, ctlVars, sseVars, histVars, toast, srvStatus,
                        downloads, reportDate, riskPercent, clock, intelVars>>

(***************************************************************************)
(* Traffic page: Export Live CSV and Clear Table                           *)
(***************************************************************************)
\* mutant: the empty test is lost
noPacketsNever(table) == FALSE

\* !packets.length
noPackets(table) == Len(table) = 0

exportTableCsv ==
    /\ IF noPackets(packets)
       THEN /\ showToasts(<< <<"No data to export">> >>)
            /\ UNCHANGED downloads
       ELSE /\ downloads < MaxDownloads
            /\ downloads' = downloads + 1
            /\ showToasts(<< <<"Exported live traffic CSV">> >>)
    /\ UNCHANGED <<aggVars, ctlVars, sseVars, histVars, srvStatus, errors,
                   reportDate, riskPercent, clock, intelVars>>

\* Reports page: Daily, Weekly and Monthly CSV.  The FRONTEND_ONLY branch
\* builds the header line and the lines of packets.slice(0, 50), clicks the
\* link and stamps the report date; the other branch fetches from the backend.
downloadReport(period) ==
    /\ frontendOnly
    /\ downloads < MaxDownloads
    /\ downloads' = downloads + 1
    /\ reportDate' = "today"
    /\ showToasts(<< <<"report downloaded", period>> >>)
    /\ UNCHANGED <<aggVars, ctlVars, sseVars, histVars, srvStatus, errors,
                   riskPercent, clock, intelVars>>

\* onClick={() => setPackets([])}
ClearTable ==
    /\ ~crashed
    /\ packets' = <<>>
    /\ tableSince' = 0
    /\ UNCHANGED <<normalCount, attackCount, quarantineCount, labels, packetRates,
                   byteRates, protocolCounts, devices, timeline, ctlVars, uiVars,
                   sseVars, applied, malformed, riskPercent, clock, intelVars>>

(***************************************************************************)
(* Reports page: Analyze                                                   *)
(***************************************************************************)
\* Math.min(95, Math.max(15, attackCount * 8 + Math.random() * 20)), for the
\* draw 0 of Math.random
riskScore(attacks) == Min(95, Max(15, attacks * 8))

\* .map(d => d.id)
idsOf(list) == [i \in 1..Len(list) |-> list[i].id]

\* what the timeout's callback hands to setIntel, computed from the devices,
\* attackCount and normalCount of the render that called runIntel (history
\* gives the key order of that devices object); Math.floor(n * 0.4) and the
\* like are taken on tenths
intelSummary(closure) ==
    LET values == ObjectValues(closure.devices, closure.history)
    IN  [ risk_score |-> riskScore(closure.attackCount),
          total_packets |-> closure.normalCount + closure.attackCount,
          total_attacks |-> closure.attackCount,
          high_risk_devices |->
              SliceHead(idsOf(SelectSeq(values, LAMBDA d : d.threat_score >= 70)), 3),
          quarantined_devices |-> idsOf(SelectSeq(values, LAMBDA d : d.quarantined)),
          attack_patterns |->
              [ DoS |-> (closure.attackCount * 4) \div 10,
                Exfiltration |-> (closure.attackCount * 3) \div 10,
                Spoofing |-> (closure.attackCount * 2) \div 10,
                Scanning |-> closure.attackCount \div 10 ] ]

\* The Analyze button.  The FRONTEND_ONLY branch leaves a timeout of 1500 ms
\* whose callback closes over this render's devices and counters; the other
\* branch fetches from the backend.
runIntel ==
    /\ ~crashed
    /\ frontendOnly
    /\ Cardinality(intelTimers) < MaxIntel
    /\ intel' = [loading |-> TRUE]
    /\ intelTimers' = intelTimers \cup
           {[ devices |-> devices, attackCount |-> attackCount,
              normalCount |-> normalCount, history |-> applied ]}
    /\ UNCHANGED <<aggVars, ctlVars, uiVars, sseVars, histVars, riskPercent, clock>>

\* the timeout of runIntel fires
intelFires(closure) ==
    /\ ~crashed
    /\ closure \in intelTimers
    /\ intelTimers' = intelTimers \ {closure}
    /\ intel' = intelSummary(closure)
    /\ showToasts(<< <<"Threat intelligence updated">> >>)
    /\ UNCHANGED <<aggVars, ctlVars, sseVars, histVars, srvStatus, downloads,
                   errors, reportDate, riskPercent, clock>>

\* A timeout left by showToast fires: setToast(null).  A toast on screen always
\* has one pending; one that finds the toast already null changes nothing.
ToastExpire ==
    /\ ~crashed
    /\ toast # <<>>
    /\ toast' = <<>>
    /\ UNCHANGED <<aggVars, ctlVars, sseVars, histVars, srvStatus, downloads,
                   errors, reportDate, riskPercent, clock, intelVars>>

\* a re-render recomputes the memo from the counters
RenderRisk ==
    /\ riskPercent' = riskPercentMemo(normalCount, attackCount)
    /\ UNCHANGED <<aggVars, ctlVars, uiVars, sseVars, histVars, clock, intelVars>>

(***************************************************************************)
(* Specifications                                                          *)
(***************************************************************************)
Next ==
    \/ TickRandom
    \/ RunEffect
    \/ toggleStream
    \/ Refresh
    \/ exportTableCsv
    \/ ClearTable
    \/ ToastExpire

Spec == Init /\ [][Next]_vars

\* a long run of the simulation, left running
NextLong ==
    \/ TickLong
    \/ RunEffect
    \/ Refresh
    \/ ClearTable
    \/ ToastExpire

SpecLong == Init /\ [][NextLong]_vars

\* riskPercent over a range of counter values
InitRisk ==
    /\ frontendOnly = FRONTEND_ONLY
    /\ normalCount \in 0..MaxCount
    /\ attackCount \in 0..MaxCount
    /\ riskPercent = riskPercentMemo(normalCount, attackCount)
    /\ InitOther

NextRisk == RenderRisk

SpecRisk == InitRisk /\ [][NextRisk]_vars

\* the simulation left running, with the export buttons of the traffic and
\* reports pages
NextReports ==
    \/ TickRandom
    \/ RunEffect
    \/ exportTableCsv
    \/ \E period \in {"daily", "weekly", "monthly"} : downloadReport(period)
    \/ ClearTable
    \/ ToastExpire

SpecReports == Init /\ [][NextReports]_vars

\* the simulation left running through a burst of attacks on one device
NextBurst ==
    \/ TickBurst
    \/ RunEffect
    \/ ToastExpire

SpecBurst == Init /\ [][NextBurst]_vars

\* the simulation left running, with the Analyze button of the reports page
\* and the header's Refresh
NextIntel ==
    \/ TickRandom
    \/ RunEffect
    \/ runIntel
    \/ \E closure \in intelTimers : intelFires(closure)
    \/ Refresh
    \/ ToastExpire

SpecIntel == Init /\ [][NextIntel]_vars

\* the bundle built with FRONTEND_ONLY off: the connection to the backend's
\* stream under errors, reconnects and the Start/Stop button
InitSSE ==
    /\ frontendOnly = ~FRONTEND_ONLY
    /\ normalCount = 0
    /\ attackCount = 0
    /\ riskPercent = riskPercentMemo(normalCount, attackCount)
    /\ InitOther

NextSSE ==
    \/ RunEffect
    \/ toggleStream
    \/ \E es \in sources : esOnOpen(es)
    \/ \E es \in sources : esOnError(es)
    \/ \E t \in reconnects : reconnectFires(t)
    \/ ToastExpire

SpecSSE == InitSSE /\ [][NextSSE]_vars

\* the same bundle with a stream that stays up: its messages, the Start/Stop
\* button and the traffic page's Clear Table
NextStream ==
    \/ RunEffect
    \/ toggleStream
    \/ \E es \in sources : esOnOpen(es)
    \/ \E es \in connected : \E data \in eventData : esOnMessage(es, data)
    \/ ClearTable
    \/ ToastExpire

SpecStream == InitSSE /\ [][NextStream]_vars

(***************************************************************************)
(* Properties                                                              *)
(***************************************************************************)
\* the attack records of a history, oldest first
attacksOf(history) == SelectSeq(history, isAttackLabel)

\* a timeline entry without its derived id
withoutId(entry) == [f \in DOMAIN entry \ {"id"} |-> entry[f]]

\* the field f of every record of a history
column(history, f) == [i \in 1..Len(history) |-> history[i][f]]

\* C1, as stated: with N records applied since the last reset, packets is the
\* most recent min(N, MAX_ROWS) of them, newest first.
C1_TableOfAllApplied ==
    packets = SliceHead(Reverse(applied), MAX_ROWS)

\* C1, amended: with N records applied since packets was last emptied (Clear
\* Table or a completed reset), packets has min(N, MAX_ROWS) records and is
\* the most recent of them, newest first.
C1_TableOfAppliedSinceEmptied ==
    /\ tableSince <= Len(applied)
    /\ Len(packets) = Min(tableSince, MAX_ROWS)
    /\ packets = SliceHead(Reverse(SliceTail(applied, tableSince)), MAX_ROWS)

\* C1 witness: the 61st record has arrived and the first one is the one gone
C1_Witness ==
    /\ tableSince = MAX_ROWS + 1
    /\ Len(applied) = MAX_ROWS + 1
    /\ Len(packets) = MAX_ROWS
    /\ packets[1] = applied[MAX_ROWS + 1]
    /\ packets[MAX_ROWS] = applied[2]

\* C2: with N records applied since the last reset each chart series has
\* min(N, HISTORY) samples, the three have one length, and position i of each
\* comes from the same record, the i-th of the last min(N, HISTORY) applied.
C2_SeriesAligned ==
    LET window == SliceTail(applied, HISTORY)
    IN  /\ Len(labels) = Min(Len(applied), HISTORY)
        /\ Len(packetRates) = Len(labels)
        /\ Len(byteRates) = Len(labels)
        /\ labels = column(window, "timestamp")
        /\ packetRates = column(window, "packet_rate")
        /\ byteRates = column(window, "byte_rate")

\* C2 witness: the 31st record has pushed the first one out of the series
C2_Witness ==
    /\ Len(applied) = HISTORY + 1
    /\ Len(labels) = HISTORY
    /\ labels[1] = applied[2].timestamp
    /\ byteRates[HISTORY] = applied[HISTORY + 1].byte_rate

\* C3: normalCount + attackCount is the number of records applied since the
\* last reset, and attackCount the number of those labelled Attack.
C3_CountersSum ==
    /\ normalCount + attackCount = Len(applied)
    /\ attackCount = Len(attacksOf(applied))

\* C3 witness: one record of each label has been applied
C3_Witness ==
    /\ normalCount = 1
    /\ attackCount = 1
    /\ Len(applied) = 2

\* C4: every device aggregate has attackCount <= totalPackets.
C4_DeviceAttacksWithinTotal ==
    \A id \in DOMAIN devices :
        /\ devices[id].attackCount <= devices[id].totalPackets
        /\ devices[id].attackCount >= 0

\* C4 witness: a device whose records were all attacks, after a Refresh
C4_Witness ==
    /\ "ReferenceError" \in errors
    /\ \E id \in DOMAIN devices :
          /\ devices[id].attackCount = 2
          /\ devices[id].totalPackets = 2

\* C5: the timeline has at most MAX_TIMELINE entries, each a copy of an applied
\* record labelled Attack, and they are the most recent attacks, newest first.
C5_TimelineRecentAttacks ==
    /\ Len(timeline) <= MAX_TIMELINE
    /\ \A i \in 1..Len(timeline) : timeline[i].label = "Attack"
    /\ [i \in 1..Len(timeline) |-> withoutId(timeline[i])]
           = SliceHead(Reverse(attacksOf(applied)), MAX_TIMELINE)

\* C5 witness: a 13th attack has arrived among normal records
C5_Witness ==
    /\ Len(attacksOf(applied)) = MAX_TIMELINE + 1
    /\ Len(timeline) = MAX_TIMELINE
    /\ normalCount > 0
    /\ withoutId(timeline[MAX_TIMELINE]) = attacksOf(applied)[2]

allCleared ==
    /\ normalCount = 0
    /\ attackCount = 0
    /\ quarantineCount = 0
    /\ packets = <<>>
    /\ labels = <<>>
    /\ packetRates = <<>>
    /\ byteRates = <<>>
    /\ timeline = <<>>
    /\ \A k \in DOMAIN protocolCounts : protocolCounts[k] = 0
    /\ DOMAIN devices = {}

\* C7, as stated: the Refresh action leaves, in one step, every counter 0,
\* every table and series empty, every protocol counter 0 and no device.
C7_RefreshClearsAll ==
    [][Refresh => allCleared']_vars

\* C8: exportTableCsv with an empty table creates no download, shows the
\* "No data to export" toast and changes no aggregate.
C8_EmptyExportIsNoDownload ==
    [][(exportTableCsv /\ Len(packets) = 0)
         => /\ downloads' = downloads
            /\ toast' = <<"No data to export">>
            /\ UNCHANGED aggVars]_vars

\* C8 witness: the export was asked for after records were applied and the
\* table cleared
C8_Witness ==
    /\ toast = <<"No data to export">>
    /\ packets = <<>>
    /\ applied # <<>>
    /\ downloads = 0

\* the stop, or the start, has been processed: its effect has run
Stopped == ~isRunning /\ ~effectPending
Running == isRunning /\ ~effectPending

\* C9: once the stop is processed no interval is armed and no record is applied
\* until the next start; once a start is processed an interval is armed, so
\* records are produced again.
C9_StoppedProducesNothing ==
    /\ [](Stopped => (timers = {} /\ simulationInterval = 0))
    /\ [][Stopped => /\ applied' = applied
                      /\ Len(packets') <= Len(packets)
                      /\ UNCHANGED <<normalCount, attackCount, quarantineCount,
                                     labels, packetRates, byteRates,
                                     protocolCounts, devices, timeline>>]_vars
    /\ [](Running => timers # {})

\* C9 witness: the simulation was stopped after records were applied
C9_Witness ==
    /\ Stopped
    /\ applied # <<>>
    /\ srvStatus = "Stopped"

togglePressed == ~effectPending /\ effectPending'

appliedOne == Len(applied') = Len(applied) + 1

\* C11, as stated: a step that changes any aggregate is an apply or leaves
\* every aggregate cleared; nothing clears one aggregate and keeps the others.
C11_OnlyApplyOrFullReset ==
    [][aggVars' # aggVars => (appliedOne \/ allCleared')]_vars

\* C11, amended: a step that changes any aggregate is an apply, which is made
\* by an armed timer and puts its record at the head of the table, or a full
\* reset, or the Clear Table button, which empties the recent-packets table
\* and leaves every other aggregate as it is.
C11_OnlyApplyResetOrClearTable ==
    [][aggVars' # aggVars
         => \/ /\ appliedOne
               /\ timers # {}
               /\ packets' # <<>>
               /\ packets'[1] = applied'[Len(applied')]
            \/ allCleared'
            \/ /\ packets' = <<>>
               /\ UNCHANGED <<normalCount, attackCount, quarantineCount, labels,
                              packetRates, byteRates, protocolCounts, devices,
                              timeline, applied>>]_vars

\* C11 witness: Clear Table has emptied the table of two records and the
\* counters, the series and the devices are still populated
C11_Witness ==
    /\ packets = <<>>
    /\ tableSince = 0
    /\ normalCount + attackCount = 2
    /\ Len(labels) = 2
    /\ DOMAIN devices # {}

\* C12, as stated: while the recent-packets table is empty no step creates a
\* download, whichever export is asked for.
C12_NoDownloadOfEmptyTable ==
    [][packets = <<>> => downloads' = downloads]_vars

\* C13, as stated: in SSE mode, once the stop is processed no subscription is
\* open and none is opened until the next start, whatever reconnect a stream
\* error had scheduled.
C13_NoSubscriptionWhileStopped ==
    /\ [](Stopped => sources = {})
    /\ [][Stopped => sources' \subseteq sources]_vars

\* C14, as stated: in SSE mode at most one subscription is open at any time.
C14_AtMostOneSubscription ==
    Cardinality(sources) <= 1

\* C15, as stated: no two entries of the timeline have the same id.
C15_TimelineIdsUnique ==
    \A i, j \in 1..Len(timeline) :
        i # j => timeline[i].id # timeline[j].id

\* a step of es.onerror: it counts one more attempt
streamError == esAttempts' = esAttempts + 1

\* a step of es.onopen: one more source is connected
streamOpened == connected' # connected /\ connected \subseteq connected'

\* the delay of the timeout a step leaves, as a fraction of milliseconds
scheduledBackoff == (CHOOSE t \in reconnects' \ reconnects : TRUE).backoff

\* C16, as stated: the delay before the k-th consecutive reconnect attempt is
\* min(500 * 1.5^(k-1), 30000) ms, so 500 ms before the first.
C16_BackoffFromBase ==
    [][streamError
         => LET k == esAttempts'
            IN  scheduledBackoff =
                    IF 500 * 3^(k - 1) <= 30000 * 2^(k - 1)
                    THEN <<500 * 3^(k - 1), 2^(k - 1)>>
                    ELSE <<30000, 1>>]_vars

\* C16, amended: a stream error counts one more attempt and leaves exactly one
\* timeout; the delay before the k-th consecutive attempt since the last
\* successful connection is min(500 * 1.5^k, 30000) ms (750 ms before the
\* first), it never exceeds 30000 ms, and an opened connection sets the
\* attempt counter to 0.
C16_BackoffFromFirstPower ==
    /\ [][streamError
            => LET k == esAttempts'
               IN  /\ Cardinality(reconnects' \ reconnects) = 1
                   /\ reconnects \subseteq reconnects'
                   /\ scheduledBackoff =
                          IF 500 * 3^k <= 30000 * 2^k
                          THEN <<500 * 3^k, 2^k>>
                          ELSE <<30000, 1>>
                   /\ scheduledBackoff[1] <= 30000 * scheduledBackoff[2]]_vars
    /\ [][streamOpened => esAttempts' = 0]_vars
    /\ [][esAttempts' \in {esAttempts, esAttempts + 1, 0}]_vars

\* C16 witness: the eleventh error in a row has left a timeout of the capped
\* delay, beside none or one of an earlier instance
C16_Witness ==
    /\ esAttempts = 11
    /\ \E t \in reconnects : t.backoff = <<30000, 1>>
    /\ sources = {}

\* a step of es.onmessage whose data is not a record
malformedReceived == malformed' = malformed + 1

\* C17, as stated: a message whose data is not a record changes no aggregate,
\* raises no error and leaves the subscription as it is, so the messages
\* after it are still received and applied.
C17_MalformedDropped ==
    [][malformedReceived
         => /\ UNCHANGED aggVars
            /\ errors' = errors
            /\ UNCHANGED <<sources, connected>>]_vars

\* device a ranks strictly above device b: higher threat score, or the same
\* score and more attacks
ranksAbove(a, b) ==
    \/ a.threat_score > b.threat_score
    \/ a.threat_score = b.threat_score /\ a.attackCount > b.attackCount

\* C18: the top-risk list has min(6, number of devices) entries, each the
\* aggregate of a different device, ordered by descending threat_score and
\* then descending attackCount; no device outside the list ranks above one
\* inside it; the high-risk count is the number of listed devices with
\* threat_score >= 7 or attackCount >= 3, and is at most 6.
C18_TopRiskList ==
    LET list == deviceList(devices, applied)
        listed == {list[i].id : i \in 1..Len(list)}
    IN  /\ Len(list) = Min(6, Cardinality(DOMAIN devices))
        /\ Cardinality(listed) = Len(list)
        /\ \A i \in 1..Len(list) :
              list[i].id \in DOMAIN devices /\ list[i] = devices[list[i].id]
        /\ \A i, j \in 1..Len(list) : i < j => ~ranksAbove(list[j], list[i])
        /\ \A id \in DOMAIN devices \ listed :
              \A i \in 1..Len(list) : ~ranksAbove(devices[id], list[i])
        /\ highRiskDevices(list)
              = Cardinality({id \in listed : \/ devices[id].threat_score >= 70
                                             \/ devices[id].attackCount >= 3})
        /\ highRiskDevices(list) <= 6

\* C18 witness: seven devices are known and one is left out; in the list a tie
\* of scores is settled by the attack counts, one device is high-risk by its
\* score and another by its attack count alone
C18_Witness ==
    LET list == deviceList(devices, applied)
    IN  /\ Cardinality(DOMAIN devices) = 7
        /\ Len(list) = 6
        /\ \E i \in 1..5 : /\ list[i].threat_score = list[i + 1].threat_score
                           /\ list[i].attackCount > list[i + 1].attackCount
        /\ \E i \in 1..6 : list[i].threat_score >= 70
        /\ \E i \in 1..6 : list[i].threat_score < 70 /\ list[i].attackCount >= 3
        /\ highRiskDevices(list) < 6

\* the sum of the counters of the keys
RECURSIVE sumOver(_, _)
sumOver(counts, keys) ==
    IF keys = {} THEN 0
    ELSE LET k == CHOOSE x \in keys : TRUE
         IN  counts[k] + sumOver(counts, keys \ {k})

\* C19: an applied record adds 1 to the protocol counter keyed by its protocol
\* name in lower case ("unknown" when it has none), a key seen for the first
\* time starting from 0, and leaves every other counter as it is; the counters
\* sum to the number of records applied since the last reset.
C19_OneProtocolCounterPerRecord ==
    /\ [][appliedOne
            => LET pkt == applied'[Len(applied')]
                   key == toLowerCase(IF pkt.protocol = "" THEN "unknown"
                                      ELSE pkt.protocol)
                   old == IF key \in DOMAIN protocolCounts
                          THEN protocolCounts[key] ELSE 0
               IN  /\ DOMAIN protocolCounts' = DOMAIN protocolCounts \cup {key}
                   /\ protocolCounts'[key] = old + 1
                   /\ \A k \in DOMAIN protocolCounts \ {key} :
                          protocolCounts'[k] = protocolCounts[k]]_vars
    /\ [][applied' = applied => protocolCounts' = protocolCounts]_vars
    /\ [](sumOver(protocolCounts, DOMAIN protocolCounts) = Len(applied))

\* C19 witness: a record with the protocol MQTT and one with none have been
\* counted under mqtt and unknown
C19_Witness ==
    /\ Len(applied) = 2
    /\ "unknown" \in DOMAIN protocolCounts
    /\ "MQTT" \notin DOMAIN protocolCounts
    /\ protocolCounts["unknown"] = 1
    /\ protocolCounts["mqtt"] = 1
    /\ protocolCounts["coap"] = 0

\* C20: after a record is applied the aggregate of its device has the
\* record's lastStatus, quarantined, threat_score, protocol and type, and the
\* aggregates of the other devices are as before; when the record is the
\* first of its device, an attack and quarantined, the aggregate has
\* attackCount 1, totalPackets 1 and quarantined true, quarantineCount has
\* grown by 1 and the timeline has exactly one new entry, of that device.
C20_DeviceLastWriteWins ==
    [][appliedOne
         => LET pkt == applied'[Len(applied')]
                id == pkt.device_id
            IN  /\ DOMAIN devices' = DOMAIN devices \cup {id}
                /\ devices'[id].lastStatus = pkt.label
                /\ devices'[id].quarantined = pkt.quarantined
                /\ devices'[id].threat_score = pkt.threat_score
                /\ devices'[id].protocol = pkt.protocol
                /\ devices'[id].type = pkt.device_type
                /\ \A other \in DOMAIN devices \ {id} :
                       devices'[other] = devices[other]
                /\ (id \notin DOMAIN devices /\ pkt.label = "Attack" /\ pkt.quarantined)
                       => /\ devices'[id].attackCount = 1
                          /\ devices'[id].totalPackets = 1
                          /\ devices'[id].quarantined
                          /\ quarantineCount' = quarantineCount + 1
                          /\ Len(timeline') = Len(timeline) + 1
                          /\ Tail(timeline') = timeline
                          /\ timeline'[1].device_id = id]_vars

\* C20 witness: the first record of a device was a quarantined attack and its
\* second, a normal one, has overwritten the snapshot
C20_Witness ==
    \E id \in DOMAIN devices :
        /\ Len(applied) = 2
        /\ applied[1].device_id = id /\ applied[1].label = "Attack"
        /\ applied[1].quarantined
        /\ applied[2].device_id = id /\ applied[2].label = "Normal"
        /\ devices[id].totalPackets = 2
        /\ devices[id].attackCount = 1
        /\ devices[id].lastStatus = "Normal"
        /\ ~devices[id].quarantined
        /\ quarantineCount = 1
        /\ Len(timeline) = 1

\* the records of a history that name the device id
recordsOf(history, id) == SelectSeq(history, LAMBDA pkt : pkt.device_id = id)

\* C22: the totalPackets of the device aggregates sum to normalCount +
\* attackCount, their attackCount to the global attackCount, and each device's
\* totalPackets and attackCount count the records, and the attacks, applied
\* for its id since the last reset.
C22_RegistryMatchesCounters ==
    LET total == [id \in DOMAIN devices |-> devices[id].totalPackets]
        attacks == [id \in DOMAIN devices |-> devices[id].attackCount]
    IN  /\ sumOver(total, DOMAIN devices) = normalCount + attackCount
        /\ sumOver(attacks, DOMAIN devices) = attackCount
        /\ DOMAIN devices = {applied[i].device_id : i \in 1..Len(applied)}
        /\ \A id \in DOMAIN devices :
              /\ devices[id].totalPackets = Len(recordsOf(applied, id))
              /\ devices[id].attackCount = Len(attacksOf(recordsOf(applied, id)))

\* C22 witness: two devices are known, one by an attack and one by a normal
\* record, after a press of Refresh
C22_Witness ==
    /\ Cardinality(DOMAIN devices) = 2
    /\ normalCount = 1
    /\ attackCount = 1
    /\ \E id \in DOMAIN devices : devices[id].attackCount = 1
    /\ \E id \in DOMAIN devices : devices[id].attackCount = 0
    /\ "ReferenceError" \in errors

\* a step of the [isRunning] effect
effectRan == effectPending /\ ~effectPending'

\* C23: in simulation mode at most one interval is armed at any time; once
\* a start has been processed the one armed is the one the effect keeps, so
\* the one before it has been cleared; once a stop has been processed none
\* is armed.
C23_AtMostOneInterval ==
    /\ Cardinality(timers) <= 1
    /\ Running => (timers = {effectInterval} /\ timers = {simulationInterval})
    /\ Stopped => (timers = {} /\ simulationInterval = 0)
    /\ effectPending => timers \subseteq {effectInterval}

\* C23 witness: the simulation ran, Refresh was pressed and the stop has been
\* processed: the interval that produced the records is cleared
C23_Witness ==
    /\ Stopped
    /\ timers = {}
    /\ effectInterval = 0
    /\ Len(applied) = 2
    /\ "ReferenceError" \in errors

\* C24: a press of Start/Stop flips the run state, and neither the press nor
\* the effect that follows it changes an aggregate: the two change only the
\* run state, the timer, the status text and the toast.
C24_ToggleKeepsAggregates ==
    /\ [][togglePressed => isRunning' = ~isRunning]_vars
    /\ [][(togglePressed \/ effectRan)
            => /\ UNCHANGED aggVars
               /\ UNCHANGED <<riskPercent, downloads, errors, reportDate,
                              applied, tableSince, clock>>]_vars

\* C24 witness: the stream was stopped with two records applied and Start
\* has been pressed; the table, the series and the devices are as they were
C24_Witness ==
    /\ isRunning
    /\ effectPending
    /\ toast = <<"Simulation started">>
    /\ Len(packets) = 2
    /\ Len(labels) = 2
    /\ normalCount + attackCount = 2
    /\ DOMAIN devices # {}

\* the first press of Refresh in a run
resetPressed == "ReferenceError" \in errors' /\ "ReferenceError" \notin errors

\* C21, as stated: a reset made while an analysis is pending leaves the intel
\* result cleared and that analysis abandoned, so that nothing computed from
\* the counters and devices of before the reset is shown after it.
C21_ResetClearsPendingIntel ==
    [][(resetPressed /\ intelTimers # {})
         => (intel' = <<>> /\ intelTimers' = {})]_vars

====
